---- MODULE Spec2Model ----
(***************************************************************************)
(* Instanced capped-cylinder collections of the VispyTests repository.     *)
(*                                                                         *)
(* Three variants of the class CappedCylinderCollection are modelled:      *)
(*   "deferred"  cappedcylindercollection.py     add_cylinder + refresh    *)
(*   "eager"     cappedcylinderclasstest.py      add_cylinder refreshes    *)
(*   "bulk"      newcappedcylindercollection.py  __init__ + set_*          *)
(* and the render sink they drive (vispy's InstancedMesh objects), and the *)
(* colour-id pick demo gpucolorcollisiontest.py, which overwrites and      *)
(* restores the instance colours of an InstancedMesh around a 1x1 render.  *)
(* The two worker-thread demos vispyneuronthreadtest.py ("test") and       *)
(* vispyneuronthreadplot.py ("plot") are modelled as a worker QThread and  *)
(* the UI thread's event loop, interleaved at the statements that read or  *)
(* write state the two threads share.                                      *)
(*                                                                         *)
(* Numbers: the code computes in float32.  The model draws every input     *)
(* from small integers (heights even), on which every product, sum and     *)
(* halving of the code is exact, so integers stand for the same values.    *)
(* A Python None is the empty tuple <<>> and a present object x is <<x>>;  *)
(* a handle to a draw object is its index in the sink, 0 for None.         *)
(***************************************************************************)
EXTENDS Integers, Sequences, FiniteSets, TLC

\* ------------------------------------------------------------------ bounds
MaxInstances == 2      \* add_cylinder calls accepted per collection
MaxLen == 2            \* longest array handed to the bulk variant
MaxSegs == 4           \* largest segment / slice count
NumCollections == 2    \* collection objects of the shared-geometry runs
IdSpread == 4          \* instance indexes tried on either side of a channel boundary
MaxSimSteps == 5       \* fadvance() steps that take simulated time to 1000 ms
MaxTrace == 2          \* samples a trace keeps (5000 in the program)
MaxQueued == 2         \* data_ready signals waiting in the event queue

Colls == 1..NumCollections
SegCounts == 3..MaxSegs

\* ------------------------------------------------------------- input values
\* The values the calls are tried with: two of each attribute, one radius and one
\* height that are not positive, one orientation that is not the identity.
Rx90 == <<<<1, 0, 0>>, <<0, 0, -1>>, <<0, 1, 0>>>>
Eye3 == <<<<1, 0, 0>>, <<0, 1, 0>>, <<0, 0, 1>>>>

PositionValues == <<<<0, 0, 0>>, <<2, 0, 0>>>>
RadiusValues == <<2, 0>>
HeightValues == <<4, -2>>
OrientationValues == <<Eye3, Rx90>>
ColorValues == <<<<1, 0, 0, 1>>, <<0, 0, 1, 1>>>>

SetOf(seq) == {seq[i] : i \in DOMAIN seq}

Positions == SetOf(PositionValues)
Radii == SetOf(RadiusValues)
Heights == SetOf(HeightValues)
Colors == SetOf(ColorValues)
OrientationArgs == {<<>>, <<Rx90>>}

\* The arrays the bulk variant is tried with: every length up to MaxLen, the
\* entries running through the attribute's values from any starting value.
Ramp(vals, start, n) == [i \in 1..n |-> vals[((start + i - 2) % Len(vals)) + 1]]

Arrays(vals) == {Ramp(vals, start, n) : start \in DOMAIN vals, n \in 0..MaxLen}

\* The arguments a set_* call on a collection of n instances is tried with: every
\* array of the right length, and one of a wrong length (the code reads only the
\* shape of an array it rejects), longer than n where MaxLen allows.
WrongLen(n) == IF n < MaxLen THEN n + 1 ELSE n - 1

ArrayArgs(vals, n) ==
    {Ramp(vals, start, n) : start \in DOMAIN vals} \cup {Ramp(vals, 1, WrongLen(n))}

Optional(S) == {<<>>} \cup {<<a>> : a \in S}

\* ------------------------------------------------------- 3x3 linear algebra
Diag(a, b, c) == <<<<a, 0, 0>>, <<0, b, 0>>, <<0, 0, c>>>>

Dot3(u, v) == u[1] * v[1] + u[2] * v[2] + u[3] * v[3]

Column(m, j) == <<m[1][j], m[2][j], m[3][j]>>

MatVec(m, v) == <<Dot3(m[1], v), Dot3(m[2], v), Dot3(m[3], v)>>

MatMul(a, b) == [i \in 1..3 |-> [j \in 1..3 |-> Dot3(a[i], Column(b, j))]]

VecAdd(u, v) == <<u[1] + v[1], u[2] + v[2], u[3] + v[3]>>

VecSub(u, v) == <<u[1] - v[1], u[2] - v[2], u[3] - v[3]>>

VecScale(u, s) == <<u[1] * s, u[2] * s, u[3] * s>>

\* 0.5 * h, exact on the even heights of the model
Half(h) == IF h >= 0 THEN h \div 2 ELSE 0 - ((0 - h) \div 2)

\* np.vstack([a, b]) of two arrays of rows
VStack(a, b) == a \o b

\* --------------------------------------------------------- unit geometry
\* A vertex [r, k, n, z2] is the point (r cos(2 pi k/n), r sin(2 pi k/n), z2/2).
LateralVertices(S) ==
    [v \in 1..(2 * S) |->
        IF v <= S THEN [r |-> 1, k |-> v - 1, n |-> S, z2 |-> -1]
                  ELSE [r |-> 1, k |-> v - 1 - S, n |-> S, z2 |-> 1]]

\* A loop that takes the next ring vertex without wrapping around at the last segment.
LateralIndicesNoWrap(S) ==
    [t \in 1..(2 * S) |->
        LET i == (t - 1) \div 2
            ni == i + 1
        IN IF t % 2 = 1 THEN <<i, i + S, ni>> ELSE <<ni, i + S, ni + S>>]

\* idx of the loop "for i in range(S)": two triangles per segment
LateralIndices(S) ==
    [t \in 1..(2 * S) |->
        LET i == (t - 1) \div 2
            ni == (i + 1) % S
        IN IF t % 2 = 1 THEN <<i, i + S, ni>> ELSE <<ni, i + S, ni + S>>]

DiskVertices(K) ==
    [v \in 1..(K + 1) |->
        IF v = 1 THEN [r |-> 0, k |-> 0, n |-> 1, z2 |-> 0]
                 ELSE [r |-> 1, k |-> v - 2, n |-> K, z2 |-> 0]]

\* A fan that is never closed: the triangle [0, K, 1] is left out.
DiskIndicesOpen(K) ==
    [t \in 1..(IF K > 1 THEN K - 1 ELSE 0) |-> <<0, t, t + 1>>]

DiskIndices(K) ==
    LET fan == IF K > 1 THEN K - 1 ELSE 0
    IN [t \in 1..(fan + 1) |-> IF t <= fan THEN <<0, t, t + 1>> ELSE <<0, K, 1>>]

\* ------------------------------------------------- pick demo: constants
\* gpucolorcollisiontest.py.  A colour channel c in [0, 1] is the integer 510 * c,
\* which is exact for the 0.5 of the blue and for every byte / 255.0 of an id.
N == 3
DRAG_THRESHOLD == 5

Blue == <<255, 255, 510, 510>>
Red == <<510, 0, 0, 510>>

\* byte / 255.0
Channel(byte) == 2 * byte

\* An id colour with the low byte in the blue channel and the high byte in red.
IdColorBlueLow(i) ==
    LET idx == i + 1
    IN <<Channel((idx \div 65536) % 256), Channel((idx \div 256) % 256),
         Channel(idx % 256), 510>>

\* [r, g, b, 1.0] of the loop "for i in range(N)": idx = i + 1,
\* r = (idx & 0xFF) / 255.0, g = ((idx >> 8) & 0xFF) / 255.0,
\* b = ((idx >> 16) & 0xFF) / 255.0
IdColor(i) ==
    LET idx == i + 1
    IN <<Channel(idx % 256), Channel((idx \div 256) % 256),
         Channel((idx \div 65536) % 256), 510>>

orig_colors == [s \in 1..N |-> Blue]

id_colors == [s \in 1..N |-> IdColor(s - 1)]

\* The byte an RGBA8 framebuffer stores for a channel: round(255 * c), clamped.
ByteOf(v) == IF v >= 510 THEN 255 ELSE IF v <= 0 THEN 0 ELSE (v + 1) \div 2

\* canvas.render(region=(x, y, 1, 1), alpha=False, bgcolor=(0, 0, 0, 0)) and
\* img[0, 0]: the pixel shows sphere `under` (1..N) in its current instance colour,
\* or the cleared background when under = 0.
RenderPixel(colors, under) ==
    IF under = 0 THEN <<0, 0, 0>>
    ELSE <<ByteOf(colors[under][1]), ByteOf(colors[under][2]), ByteOf(colors[under][3])>>

\* A decoding without the "- 1": the id itself is taken for the index.
DecodeNoOffset(bytes) == bytes[1] + bytes[2] * 256 + bytes[3] * 65536

\* (sampled[0] + (sampled[1] << 8) + (sampled[2] << 16)) - 1
Decode(bytes) == (bytes[1] + bytes[2] * 256 + bytes[3] * 65536) - 1

\* "if 0 <= pick_id < N" for a collection of n instances
IsHit(id, n) == 0 <= id /\ id < n

\* ------------------------------------------------------------------ state
VARIABLES
    cls,          \* per class: the four class attributes _side_vertices, ...
    builds,       \* arrays of unit geometry generated so far (stamps the next one)
    kind,         \* per object: "none" before construction, else its class
    _segs,        \* per object: cylinder_segments
    _slices,      \* per object: disk_slices
    _instances,   \* per object: the queued instance tuples
    _side_mesh,   \* per object: handle of the side-wall InstancedMesh
    _disk_mesh,   \* per object: handle of the cap InstancedMesh (deferred, eager)
    _cap_mesh,    \* per object: handle of the cap InstancedMesh (bulk)
    store,        \* per object of the bulk class: N and the five arrays
    sink,         \* the InstancedMesh objects created so far, in order
    event,        \* the last call: its name, its object, the sink calls it made
    \* gpucolorcollisiontest.py, the pick demo
    _click,       \* position of the last mouse press, None once consumed
    spheres,      \* the InstancedMesh of the demo: its instance_colors
    highlight_colors,  \* the colours shown outside a pick pass
    selected,     \* per sphere: toggled by a hit
    pc,           \* position inside on_mouse_release, "idle" between handlers
    old_cols,     \* local of on_mouse_release: the saved colours
    sampled,      \* local of on_mouse_release: the bytes of the rendered pixel
    pick_id,      \* the index on_mouse_release decoded last, None before the first
    probe,        \* one instance index taken through the id encoding
    \* vispyneuronthreadtest.py ("test") and vispyneuronthreadplot.py ("plot")
    demo,         \* which of the two programs runs, "none" before MainWindow()
    running,      \* NeuronWorker._running / NeuronWorker.running
    wpc,          \* position of the worker thread inside run()
    h_t,          \* NEURON's clock: the fadvance() steps made so far
    count,        \* local of run() in "test": steps since the last emit
    data_ready,   \* "test": emitted signals queued for the UI thread (their T[-1])
    sim_t,        \* "plot": NeuronWorker.t
    sim_v,        \* "plot": NeuronWorker.v
    mainpc,       \* position of the UI thread: "idle" in the event loop, or in a handler
    uf_t,         \* local t of update_frame
    uf_v,         \* local v of update_frame
    trace_t,      \* "plot": MainWindow.trace_t
    trace_V,      \* "plot": MainWindow.trace_V
    ui_timer,     \* "plot": the QTimer is active
    steps_after_stop   \* fadvance() steps made after the flag was cleared

pickVars == <<_click, spheres, highlight_colors, selected, pc, old_cols, sampled, pick_id,
              probe>>

threadVars == <<demo, running, wpc, h_t, count, data_ready, sim_t, sim_v, mainpc, uf_t, uf_v,
                trace_t, trace_V, ui_timer, steps_after_stop>>

vars == <<cls, builds, kind, _segs, _slices, _instances, _side_mesh, _disk_mesh,
          _cap_mesh, store, sink, event, pickVars, threadVars>>

NoGeometry ==
    [side_vertices |-> <<>>, side_indices |-> <<>>,
     disk_vertices |-> <<>>, disk_indices |-> <<>>]

NoStore ==
    [N |-> 0, positions |-> <<>>, radii |-> <<>>, heights |-> <<>>,
     orientations |-> <<>>, colors |-> <<>>, live |-> FALSE]

Kinds == {"deferred", "eager", "bulk"}

Init ==
    /\ cls = [k \in Kinds |-> NoGeometry]
    /\ builds = 0
    /\ kind = [c \in Colls |-> "none"]
    /\ _segs = [c \in Colls |-> 0]
    /\ _slices = [c \in Colls |-> 0]
    /\ _instances = [c \in Colls |-> <<>>]
    /\ _side_mesh = [c \in Colls |-> 0]
    /\ _disk_mesh = [c \in Colls |-> 0]
    /\ _cap_mesh = [c \in Colls |-> 0]
    /\ store = [c \in Colls |-> NoStore]
    /\ sink = <<>>
    /\ event = [op |-> "start", obj |-> 0, calls |-> <<>>, raised |-> "none",
                after |-> "start"]
    /\ _click = <<>>
    /\ spheres = [instance_colors |-> orig_colors]
    /\ highlight_colors = orig_colors
    /\ selected = [s \in 1..N |-> FALSE]
    /\ pc = "idle"
    /\ old_cols = <<>>
    /\ sampled = <<>>
    /\ pick_id = <<>>
    /\ probe = <<>>
    /\ demo = "none"
    /\ running = FALSE
    /\ wpc = "unstarted"
    /\ h_t = 0
    /\ count = 0
    /\ data_ready = <<>>
    /\ sim_t = 0
    /\ sim_v = 0
    /\ mainpc = "idle"
    /\ uf_t = 0
    /\ uf_v = 0
    /\ trace_t = <<>>
    /\ trace_V = <<>>
    /\ ui_timer = FALSE
    /\ steps_after_stop = 0

\* The record of a call: its name, its object, the sink calls it made in order and
\* the exception it raised.
Event(op, c, calls, raised) ==
    [op |-> op, obj |-> c, calls |-> calls, raised |-> raised, after |-> "-"]

\* The record of a refresh(), which also notes the call made directly before it
\* when that call was on the same object.
RefreshEvent(c, calls) ==
    [op |-> "refresh", obj |-> c, calls |-> calls, raised |-> "none",
     after |-> IF event.obj = c THEN event.op ELSE "other"]

\* ------------------------------------------------------------ render sink
\* InstancedMesh(vertices, faces, instance_positions=..., ...): a new draw object
NewMesh(vertices, faces, batch, parent) ==
    [vertices |-> vertices, faces |-> faces,
     instance_positions |-> batch.positions,
     instance_transforms |-> batch.transforms,
     instance_colors |-> batch.colors,
     parent |-> parent]

SinkCreate(s, vertices, faces, batch, parent) ==
    Append(s, NewMesh(vertices, faces, batch, parent))

\* An update that appends the new rows to the rows already uploaded.
SinkUpdateAccumulating(s, h, batch) ==
    [s EXCEPT ![h].instance_positions = @ \o batch.positions,
              ![h].instance_transforms = @ \o batch.transforms,
              ![h].instance_colors = @ \o batch.colors]

\* mesh.instance_positions = ...; mesh.instance_transforms = ...;
\* mesh.instance_colors = ...; mesh.update()
SinkUpdate(s, h, batch) ==
    [s EXCEPT ![h].instance_positions = batch.positions,
              ![h].instance_transforms = batch.transforms,
              ![h].instance_colors = batch.colors]

\* A class that regenerates its lateral mesh on every request.
SideGeometryMissingAlways(K) == TRUE

\* ------------------------------------------------- shared geometry (class)
SideGeometryMissing(K) == K.side_vertices = <<>>

DiskGeometryMissing(K) == K.disk_vertices = <<>>

\* "if CappedCylinderCollection._side_vertices is None:" and its body
WithSideGeometry(K, S, stamp) ==
    IF SideGeometryMissing(K)
    THEN [K EXCEPT !.side_vertices = <<[oid |-> stamp, data |-> LateralVertices(S)]>>,
                   !.side_indices = <<[oid |-> stamp, data |-> LateralIndices(S)]>>]
    ELSE K

\* "if CappedCylinderCollection._disk_vertices is None:" and its body
WithDiskGeometry(K, D, stamp) ==
    IF DiskGeometryMissing(K)
    THEN [K EXCEPT !.disk_vertices = <<[oid |-> stamp, data |-> DiskVertices(D)]>>,
                   !.disk_indices = <<[oid |-> stamp, data |-> DiskIndices(D)]>>]
    ELSE K

Built(before, after) == IF before = after THEN 0 ELSE 1

\* ------------------------------------------------- class "deferred"
\* cappedcylindercollection.py: visuals are created by the first refresh().

\* __init__(parent, cylinder_segments, disk_slices)
DeferredInit(c, cylinder_segments, disk_slices) ==
    /\ kind[c] = "none"
    /\ kind' = [kind EXCEPT ![c] = "deferred"]
    /\ _instances' = [_instances EXCEPT ![c] = <<>>]
    /\ _side_mesh' = [_side_mesh EXCEPT ![c] = 0]
    /\ _disk_mesh' = [_disk_mesh EXCEPT ![c] = 0]
    /\ _segs' = [_segs EXCEPT ![c] = cylinder_segments]
    /\ _slices' = [_slices EXCEPT ![c] = disk_slices]
    /\ event' = Event("__init__", c, <<>>, "none")
    /\ UNCHANGED <<cls, builds, _cap_mesh, store, sink>>
    /\ UNCHANGED pickVars
    /\ UNCHANGED threadVars

\* the tuple (pos, float(radius), float(height), col, ori) that add_cylinder queues
InstanceTuple(position, radius, height, color, orientation) ==
    [pos |-> position, radius |-> radius, height |-> height, col |-> color,
     ori |-> IF orientation = <<>> THEN Eye3 ELSE orientation[1]]

\* add_cylinder(position, radius, height, color, orientation=None)
add_cylinder(c, position, radius, height, color, orientation) ==
    /\ kind[c] = "deferred"
    /\ Len(_instances[c]) < MaxInstances
    /\ _instances' = [_instances EXCEPT ![c] =
            Append(@, InstanceTuple(position, radius, height, color, orientation))]
    /\ event' = Event("add_cylinder", c, <<>>, "none")
    /\ UNCHANGED <<cls, builds, kind, _segs, _slices, _side_mesh, _disk_mesh, _cap_mesh,
                   store, sink>>
    /\ UNCHANGED pickVars
    /\ UNCHANGED threadVars

\* Side transforms composed the other way round: scale @ oris[i].
SideBatchScaleFirst(insts) ==
    [positions |-> [i \in 1..Len(insts) |-> insts[i].pos],
     transforms |-> [i \in 1..Len(insts) |->
            MatMul(Diag(insts[i].radius, insts[i].radius, insts[i].height), insts[i].ori)],
     colors |-> [i \in 1..Len(insts) |-> insts[i].col]]

\* side_pos, side_xf, colors of refresh(): one entry per instance, in queue order
SideBatch(insts) ==
    [positions |-> [i \in 1..Len(insts) |-> insts[i].pos],
     transforms |-> [i \in 1..Len(insts) |->
            MatMul(insts[i].ori, Diag(insts[i].radius, insts[i].radius, insts[i].height))],
     colors |-> [i \in 1..Len(insts) |-> insts[i].col]]

\* A cap offset taken along row 2 of the orientation instead of column 2.
CapPositionRowAxis(inst, top) ==
    VecAdd(inst.pos,
           VecScale(inst.ori[3], IF top THEN Half(inst.height) ELSE 0 - Half(inst.height)))

\* cap position of one instance: pos + ori @ [0, 0, -+0.5 * ht]
CapPosition(inst, top) ==
    VecAdd(inst.pos,
           MatVec(inst.ori, <<0, 0, IF top THEN Half(inst.height) ELSE 0 - Half(inst.height)>>))

\* A cap scaled like the side wall, by diag(rad, rad, ht).
CapTransformWithHeight(inst) ==
    MatMul(inst.ori, Diag(inst.radius, inst.radius, inst.height))

\* cap transform of one instance: ori @ diag(rad, rad, 1.0)
CapTransform(inst) == MatMul(inst.ori, Diag(inst.radius, inst.radius, 1))

\* cap_pos, cap_xf, cap_col of refresh(): rows bi = 2*i and ti = 2*i + 1 of
\* instance i (0-based), here rows 2*i - 1 and 2*i of instance i (1-based)
CapBatch(insts) ==
    [positions |-> [j \in 1..(2 * Len(insts)) |->
            CapPosition(insts[(j + 1) \div 2], j % 2 = 0)],
     transforms |-> [j \in 1..(2 * Len(insts)) |-> CapTransform(insts[(j + 1) \div 2])],
     colors |-> [j \in 1..(2 * Len(insts)) |-> insts[(j + 1) \div 2].col]]

\* A refresh that creates a new visual whether or not one is already bound.
UnboundAlways(handle) == TRUE

\* "if self._side_mesh is None:" / "if self._disk_mesh is None:"
Unbound(handle) == handle = 0

\* A refresh that never returns early.
NothingQueuedNever(insts) == FALSE

\* "M = len(self._instances); if M == 0: return"
NothingQueued(insts) == Len(insts) = 0

\* refresh()
refresh(c) ==
    /\ kind[c] = "deferred"
    /\ IF NothingQueued(_instances[c])
       THEN /\ event' = RefreshEvent(c, <<>>)
            /\ UNCHANGED <<cls, builds, _side_mesh, _disk_mesh, sink>>
       ELSE LET K0 == cls["deferred"]
                K1 == WithSideGeometry(K0, _segs[c], builds + 1)
                K2 == WithDiskGeometry(K1, _slices[c], builds + Built(K0, K1) + 1)
                side == SideBatch(_instances[c])
                caps == CapBatch(_instances[c])
                createSide == Unbound(_side_mesh[c])
                sink1 == IF createSide
                         THEN SinkCreate(sink, K2.side_vertices[1], K2.side_indices[1], side, c)
                         ELSE SinkUpdate(sink, _side_mesh[c], side)
                sideHandle == IF createSide THEN Len(sink1) ELSE _side_mesh[c]
                createDisk == Unbound(_disk_mesh[c])
                sink2 == IF createDisk
                         THEN SinkCreate(sink1, K2.disk_vertices[1], K2.disk_indices[1], caps, c)
                         ELSE SinkUpdate(sink1, _disk_mesh[c], caps)
                diskHandle == IF createDisk THEN Len(sink2) ELSE _disk_mesh[c]
            IN /\ cls' = [cls EXCEPT !["deferred"] = K2]
               /\ builds' = builds + Built(K0, K1) + Built(K1, K2)
               /\ sink' = sink2
               /\ _side_mesh' = [_side_mesh EXCEPT ![c] = sideHandle]
               /\ _disk_mesh' = [_disk_mesh EXCEPT ![c] = diskHandle]
               /\ event' = RefreshEvent(c, <<IF createSide THEN "create" ELSE "update",
                                               IF createDisk THEN "create" ELSE "update">>)
    /\ UNCHANGED <<kind, _segs, _slices, _instances, _cap_mesh, store>>
    /\ UNCHANGED pickVars
    /\ UNCHANGED threadVars

\* One deferred collection, default-sized geometry, every instance input.
DeferredNext ==
    \/ DeferredInit(1, 3, 3)
    \/ \E p \in Positions, r \in Radii, h \in Heights, col \in Colors, o \in OrientationArgs :
            add_cylinder(1, p, r, h, col, o)
    \/ refresh(1)

SpecDeferred == Init /\ [][DeferredNext]_vars

\* ------------------------------------------------- class "eager"
\* cappedcylinderclasstest.py: __init__ creates the visuals, add_cylinder uploads.

\* __init__(parent, cylinder_segments, disk_slices)
EagerInit(c, cylinder_segments, disk_slices) ==
    /\ kind[c] = "none"
    /\ LET K0 == cls["eager"]
           K1 == WithSideGeometry(K0, cylinder_segments, builds + 1)
           K2 == WithDiskGeometry(K1, disk_slices, builds + Built(K0, K1) + 1)
           empty == [positions |-> <<>>, transforms |-> <<>>, colors |-> <<>>]
           sink1 == SinkCreate(sink, K2.side_vertices[1], K2.side_indices[1], empty, c)
           sink2 == SinkCreate(sink1, K2.disk_vertices[1], K2.disk_indices[1], empty, c)
       IN /\ cls' = [cls EXCEPT !["eager"] = K2]
          /\ builds' = builds + Built(K0, K1) + Built(K1, K2)
          /\ sink' = sink2
          /\ _side_mesh' = [_side_mesh EXCEPT ![c] = Len(sink1)]
          /\ _disk_mesh' = [_disk_mesh EXCEPT ![c] = Len(sink2)]
    /\ kind' = [kind EXCEPT ![c] = "eager"]
    /\ _instances' = [_instances EXCEPT ![c] = <<>>]
    /\ event' = Event("__init__", c, <<"create", "create">>, "none")
    /\ UNCHANGED <<_segs, _slices, _cap_mesh, store>>
    /\ UNCHANGED pickVars
    /\ UNCHANGED threadVars

\* side_positions, side_transforms, side_colors of _refresh_instances()
EagerSideBatch(insts) ==
    [positions |-> [i \in 1..Len(insts) |-> insts[i].pos],
     transforms |-> [i \in 1..Len(insts) |->
            Diag(insts[i].radius, insts[i].radius, insts[i].height)],
     colors |-> [i \in 1..Len(insts) |-> insts[i].col]]

\* cap_positions, cap_transforms, cap_colors of _refresh_instances()
EagerCapBatch(insts) ==
    [positions |-> [j \in 1..(2 * Len(insts)) |->
            LET inst == insts[(j + 1) \div 2]
            IN VecAdd(inst.pos,
                      <<0, 0, IF j % 2 = 0 THEN Half(inst.height) ELSE 0 - Half(inst.height)>>)],
     transforms |-> [j \in 1..(2 * Len(insts)) |->
            LET inst == insts[(j + 1) \div 2] IN Diag(inst.radius, inst.radius, 1)],
     colors |-> [j \in 1..(2 * Len(insts)) |-> insts[(j + 1) \div 2].col]]

\* _refresh_instances(): the sink after both uploads
Eager_refresh_instances(c, insts) ==
    SinkUpdate(SinkUpdate(sink, _side_mesh[c], EagerSideBatch(insts)),
               _disk_mesh[c], EagerCapBatch(insts))

\* add_cylinder(position, radius, height, color), which ends in _refresh_instances()
Eager_add_cylinder(c, position, radius, height, color) ==
    /\ kind[c] = "eager"
    /\ Len(_instances[c]) < MaxInstances
    /\ LET insts == Append(_instances[c],
                [pos |-> position, radius |-> radius, height |-> height, col |-> color])
       IN /\ _instances' = [_instances EXCEPT ![c] = insts]
          /\ sink' = Eager_refresh_instances(c, insts)
    /\ event' = Event("add_cylinder", c, <<"update", "update">>, "none")
    /\ UNCHANGED <<cls, builds, kind, _segs, _slices, _side_mesh, _disk_mesh, _cap_mesh, store>>
    /\ UNCHANGED pickVars
    /\ UNCHANGED threadVars

\* One eager collection, every instance input.
EagerNext ==
    \/ EagerInit(1, 3, 3)
    \/ \E p \in Positions, r \in Radii, h \in Heights, col \in Colors :
            Eager_add_cylinder(1, p, r, h, col)

SpecEager == Init /\ [][EagerNext]_vars

\* ------------------------------------------------- class "bulk"
\* newcappedcylindercollection.py: all instance data is passed to __init__.

\* side_transforms[k] = orientations[k] @ diag(radii[k], radii[k], heights[k])
BulkSideTransforms(st) ==
    [k \in 1..st.N |->
        MatMul(st.orientations[k], Diag(st.radii[k], st.radii[k], st.heights[k]))]

\* axes = orientations[:, :, 2]; half_h = heights * 0.5;
\* np.vstack([positions - axes * half_h, positions + axes * half_h])
BulkCapPositions(st) ==
    LET axes == [k \in 1..st.N |-> Column(st.orientations[k], 3)]
        half_h == [k \in 1..st.N |-> Half(st.heights[k])]
        pos0 == [k \in 1..st.N |-> VecSub(st.positions[k], VecScale(axes[k], half_h[k]))]
        pos1 == [k \in 1..st.N |-> VecAdd(st.positions[k], VecScale(axes[k], half_h[k]))]
    IN VStack(pos0, pos1)

\* cap_transforms[k] = orientations[k] @ diag(radii[k], radii[k], 1.0), stacked twice
BulkCapTransforms(st) ==
    LET cap_t == [k \in 1..st.N |->
                    MatMul(st.orientations[k], Diag(st.radii[k], st.radii[k], 1))]
    IN VStack(cap_t, cap_t)

\* The five shape assertions of __init__, with N = len(positions).
ShapesMatch(n, radii, heights, orientations, colors) ==
    /\ Len(radii) = n
    /\ Len(heights) = n
    /\ Len(orientations) = n
    /\ Len(colors) = n

\* __init__(positions, radii, heights, orientations, colors, cylinder_segments,
\* disk_slices, parent).  A failed assertion leaves the caller without an object.
BulkInit(c, positions, radii, heights, orientations, colors, cylinder_segments, disk_slices) ==
    /\ kind[c] = "none"
    /\ IF ~ShapesMatch(Len(positions), radii, heights, orientations, colors)
       THEN /\ store' = [store EXCEPT ![c] = [NoStore EXCEPT !.N = Len(positions)]]
            /\ event' = Event("__init__", c, <<>>, "AssertionError")
            /\ UNCHANGED <<cls, builds, kind, _segs, _slices, _side_mesh, _cap_mesh, sink>>
       ELSE LET st == [N |-> Len(positions), positions |-> positions, radii |-> radii,
                       heights |-> heights, orientations |-> orientations,
                       colors |-> colors, live |-> TRUE]
                K0 == cls["bulk"]
                K1 == WithSideGeometry(K0, cylinder_segments, builds + 1)
                side == [positions |-> st.positions, transforms |-> BulkSideTransforms(st),
                         colors |-> st.colors]
                sink1 == SinkCreate(sink, K1.side_vertices[1], K1.side_indices[1], side, c)
                K2 == WithDiskGeometry(K1, disk_slices, builds + Built(K0, K1) + 1)
                caps == [positions |-> BulkCapPositions(st),
                         transforms |-> BulkCapTransforms(st),
                         colors |-> VStack(st.colors, st.colors)]
                sink2 == SinkCreate(sink1, K2.disk_vertices[1], K2.disk_indices[1], caps, c)
            IN /\ store' = [store EXCEPT ![c] = st]
               /\ _segs' = [_segs EXCEPT ![c] = cylinder_segments]
               /\ _slices' = [_slices EXCEPT ![c] = disk_slices]
               /\ cls' = [cls EXCEPT !["bulk"] = K2]
               /\ builds' = builds + Built(K0, K1) + Built(K1, K2)
               /\ sink' = sink2
               /\ _side_mesh' = [_side_mesh EXCEPT ![c] = Len(sink1)]
               /\ _cap_mesh' = [_cap_mesh EXCEPT ![c] = Len(sink2)]
               /\ kind' = [kind EXCEPT ![c] = "bulk"]
               /\ event' = Event("__init__", c, <<"create", "create">>, "none")
    /\ UNCHANGED <<_instances, _disk_mesh>>
    /\ UNCHANGED pickVars
    /\ UNCHANGED threadVars

\* A set_colors that uploads the new colours to the side walls only.
set_colors_side_only(c, new_colors) ==
    /\ kind[c] = "bulk"
    /\ IF Len(new_colors) # store[c].N
       THEN /\ event' = Event("set_colors", c, <<>>, "AssertionError")
            /\ UNCHANGED <<store, sink>>
       ELSE /\ store' = [store EXCEPT ![c].colors = new_colors]
            /\ sink' = [sink EXCEPT ![_side_mesh[c]].instance_colors = new_colors]
            /\ event' = Event("set_colors", c, <<"update", "update">>, "none")
    /\ UNCHANGED <<cls, builds, kind, _segs, _slices, _instances, _side_mesh, _disk_mesh,
                   _cap_mesh>>
    /\ UNCHANGED pickVars
    /\ UNCHANGED threadVars

\* set_colors(new_colors)
set_colors(c, new_colors) ==
    /\ kind[c] = "bulk"
    /\ IF Len(new_colors) # store[c].N
       THEN /\ event' = Event("set_colors", c, <<>>, "AssertionError")
            /\ UNCHANGED <<store, sink>>
       ELSE /\ store' = [store EXCEPT ![c].colors = new_colors]
            /\ sink' = [sink EXCEPT
                    ![_side_mesh[c]].instance_colors = new_colors,
                    ![_cap_mesh[c]].instance_colors = VStack(new_colors, new_colors)]
            /\ event' = Event("set_colors", c, <<"update", "update">>, "none")
    /\ UNCHANGED <<cls, builds, kind, _segs, _slices, _instances, _side_mesh, _disk_mesh,
                   _cap_mesh>>
    /\ UNCHANGED pickVars
    /\ UNCHANGED threadVars

\* "if arg is not None: assert arg.shape == (self.N, ...)"
ArgFits(st, arg) == arg = <<>> \/ Len(arg[1]) = st.N

\* set_transforms(positions=None, radii=None, heights=None, orientations=None):
\* each argument is asserted and stored in turn, then both visuals are uploaded.
set_transforms(c, positions, radii, heights, orientations) ==
    /\ kind[c] = "bulk"
    /\ LET st0 == store[c]
           ok1 == ArgFits(st0, positions)
           st1 == IF ok1 /\ positions # <<>>
                  THEN [st0 EXCEPT !.positions = positions[1]] ELSE st0
           ok2 == ok1 /\ ArgFits(st0, radii)
           st2 == IF ok2 /\ radii # <<>> THEN [st1 EXCEPT !.radii = radii[1]] ELSE st1
           ok3 == ok2 /\ ArgFits(st0, heights)
           st3 == IF ok3 /\ heights # <<>> THEN [st2 EXCEPT !.heights = heights[1]] ELSE st2
           ok4 == ok3 /\ ArgFits(st0, orientations)
           st4 == IF ok4 /\ orientations # <<>>
                  THEN [st3 EXCEPT !.orientations = orientations[1]] ELSE st3
       IN /\ store' = [store EXCEPT ![c] = st4]
          /\ IF ~ok4
             THEN /\ event' = Event("set_transforms", c, <<>>, "AssertionError")
                  /\ UNCHANGED sink
             ELSE /\ sink' = [sink EXCEPT
                        ![_side_mesh[c]].instance_positions = st4.positions,
                        ![_side_mesh[c]].instance_transforms = BulkSideTransforms(st4),
                        ![_cap_mesh[c]].instance_positions = BulkCapPositions(st4),
                        ![_cap_mesh[c]].instance_transforms = BulkCapTransforms(st4)]
                  /\ event' = Event("set_transforms", c, <<"update", "update">>, "none")
    /\ UNCHANGED <<cls, builds, kind, _segs, _slices, _instances, _side_mesh, _disk_mesh,
                   _cap_mesh>>
    /\ UNCHANGED pickVars
    /\ UNCHANGED threadVars

\* One bulk collection, default-sized geometry, every array input.
BulkNext ==
    \/ \E p \in Arrays(PositionValues), r \in Arrays(RadiusValues),
          h \in Arrays(HeightValues), o \in Arrays(OrientationValues),
          col \in Arrays(ColorValues) :
            BulkInit(1, p, r, h, o, col, 3, 3)
    \/ \E col \in ArrayArgs(ColorValues, store[1].N) : set_colors(1, col)
    \/ \E p \in Optional(ArrayArgs(PositionValues, store[1].N)),
          r \in Optional(ArrayArgs(RadiusValues, store[1].N)),
          h \in Optional(ArrayArgs(HeightValues, store[1].N)),
          o \in Optional(ArrayArgs(OrientationValues, store[1].N)) :
            set_transforms(1, p, r, h, o)

SpecBulk == Init /\ [][BulkNext]_vars

\* ------------------------------------------------- several collections
\* A process runs one of the three files, so every collection it builds is of the
\* one class that file defines.
SameClass(k) == \A c \in Colls : kind[c] \in {"none", k}

\* Several collections of one class, every pair of counts, and one instance added
\* to each collection that takes instances one by one.
SharedNext ==
    \E c \in Colls :
        \/ \E s \in SegCounts, k \in SegCounts :
                SameClass("deferred") /\ DeferredInit(c, s, k)
        \/ /\ _instances[c] = <<>>
           /\ add_cylinder(c, PositionValues[1], RadiusValues[1], HeightValues[1],
                           ColorValues[1], <<>>)
        \/ refresh(c)
        \/ \E s \in SegCounts, k \in SegCounts :
                SameClass("eager") /\ EagerInit(c, s, k)
        \/ /\ _instances[c] = <<>>
           /\ Eager_add_cylinder(c, PositionValues[1], RadiusValues[1], HeightValues[1],
                                 ColorValues[1])
        \/ \E s \in SegCounts, k \in SegCounts :
                SameClass("bulk") /\
                BulkInit(c, <<PositionValues[1]>>, <<RadiusValues[1]>>, <<HeightValues[1]>>,
                         <<OrientationValues[1]>>, <<ColorValues[1]>>, s, k)

SpecShared == Init /\ [][SharedNext]_vars

\* ------------------------------------------------- every segment count
\* The constructor takes any cylinder_segments and disk_slices; np.linspace accepts
\* every count from 0 up, and the counts below are the ones that yield vertices.
AnyCounts == 1..MaxSegs

\* One deferred collection of any counts, instances of either radius and orientation.
GeometryNext ==
    \/ \E s \in AnyCounts, k \in AnyCounts : DeferredInit(1, s, k)
    \/ \E r \in Radii, o \in OrientationArgs :
            add_cylinder(1, PositionValues[1], r, HeightValues[1], ColorValues[1], o)
    \/ refresh(1)

SpecGeometry == Init /\ [][GeometryNext]_vars

\* ------------------------------------------------- pick demo: handlers
\* gpucolorcollisiontest.py.  The event loop runs one handler at a time; pc is
\* the place on_mouse_release has reached, so that the colours in force between
\* its statements are states of the model.
collectionVars == <<cls, builds, kind, _segs, _slices, _instances, _side_mesh, _disk_mesh,
                    _cap_mesh, store, sink, event>>

\* event.pos of the mouse events tried: a press, a release within the drag
\* threshold of it, and one beyond.
MousePositions == {<<0, 0>>, <<3, 4>>, <<6, 0>>}

\* on_mouse_press(event)
on_mouse_press(pos) ==
    /\ pc = "idle"
    /\ _click' = <<pos>>
    /\ UNCHANGED <<spheres, highlight_colors, selected, pc, old_cols, sampled, pick_id, probe>>
    /\ UNCHANGED collectionVars
    /\ UNCHANGED threadVars

\* on_mouse_release(event) down to img = canvas.render(...): returns when no press
\* is pending or the mouse was dragged, else saves the colours, puts the id colours
\* in their place and renders the pixel, which shows sphere `under` or nothing.
on_mouse_release_render(pos, under) ==
    /\ pc = "idle"
    /\ IF _click = <<>>
       THEN UNCHANGED <<_click, spheres, pc, old_cols, sampled>>
       ELSE LET dx == pos[1] - _click[1][1]
                dy == pos[2] - _click[1][2]
            IN /\ _click' = <<>>
               /\ IF dx * dx + dy * dy > DRAG_THRESHOLD * DRAG_THRESHOLD
                  THEN UNCHANGED <<spheres, pc, old_cols, sampled>>
                  ELSE /\ old_cols' = spheres.instance_colors
                       /\ spheres' = [spheres EXCEPT !.instance_colors = id_colors]
                       /\ sampled' = RenderPixel(spheres'.instance_colors, under)
                       /\ pc' = "rendered"
    /\ UNCHANGED <<highlight_colors, selected, pick_id, probe>>
    /\ UNCHANGED collectionVars
    /\ UNCHANGED threadVars

\* A pick pass that leaves the id colours in the buffer.
on_mouse_release_restore_skipped ==
    /\ pc = "rendered"
    /\ pc' = "restored"
    /\ UNCHANGED <<_click, spheres, highlight_colors, selected, old_cols, sampled, pick_id,
                   probe>>
    /\ UNCHANGED collectionVars
    /\ UNCHANGED threadVars

\* on_mouse_release: spheres.instance_colors = old_cols; canvas.update()
on_mouse_release_restore ==
    /\ pc = "rendered"
    /\ spheres' = [spheres EXCEPT !.instance_colors = old_cols]
    /\ pc' = "restored"
    /\ UNCHANGED <<_click, highlight_colors, selected, old_cols, sampled, pick_id, probe>>
    /\ UNCHANGED collectionVars
    /\ UNCHANGED threadVars

\* on_mouse_release from "sampled = img[0, 0]" to its end: decodes the index and, on
\* a hit, toggles the sphere and shows the highlight colours.
on_mouse_release_decode ==
    /\ pc = "restored"
    /\ LET id == Decode(sampled)
       IN /\ pick_id' = <<id>>
          /\ IF IsHit(id, N)
             THEN LET sel == [selected EXCEPT ![id + 1] = ~@]
                      hl == [highlight_colors EXCEPT ![id + 1] =
                                IF sel[id + 1] THEN Red ELSE Blue]
                  IN /\ selected' = sel
                     /\ highlight_colors' = hl
                     /\ spheres' = [spheres EXCEPT !.instance_colors = hl]
             ELSE UNCHANGED <<selected, highlight_colors, spheres>>
    /\ pc' = "idle"
    /\ old_cols' = <<>>
    /\ sampled' = <<>>
    /\ UNCHANGED <<_click, probe>>
    /\ UNCHANGED collectionVars
    /\ UNCHANGED threadVars

PickNext ==
    \/ \E pos \in MousePositions : on_mouse_press(pos)
    \/ \E pos \in MousePositions, under \in 0..N : on_mouse_release_render(pos, under)
    \/ on_mouse_release_restore
    \/ on_mouse_release_decode

SpecPick == Init /\ [][PickNext]_vars

\* ------------------------------------------------- pick demo: id encoding
\* The instance indexes taken through the encoding: those within IdSpread of a
\* channel boundary (idx = 2^8, 2^16, 2^24), up to the last index the claim covers.
IdSamples ==
    {i \in UNION {(b - IdSpread)..(b + IdSpread) : b \in {0, 256, 65536, 16777216}} :
        i >= 0 /\ i < 16777215}

\* One pass of the id-colour loop: the colour of instance i.  The loop
\* "for i in range(N)" reaches i only when N > i; n = i + 1 is the least such N.
EncodeId(i) ==
    /\ probe = <<>>
    /\ probe' = [stage |-> "encoded", i |-> i, n |-> i + 1, color |-> IdColor(i),
                 visible |-> FALSE, bytes |-> <<>>, decoded |-> <<>>, hit |-> FALSE]
    /\ UNCHANGED <<_click, spheres, highlight_colors, selected, pc, old_cols, sampled, pick_id>>
    /\ UNCHANGED collectionVars
    /\ UNCHANGED threadVars

\* The 1x1 render of the pick pass: the pixel shows the instance or the background.
RenderId(visible) ==
    /\ probe # <<>> /\ probe.stage = "encoded"
    /\ probe' = [probe EXCEPT !.stage = "sampled", !.visible = visible,
                    !.bytes = RenderPixel(<<probe.color>>, IF visible THEN 1 ELSE 0)]
    /\ UNCHANGED <<_click, spheres, highlight_colors, selected, pc, old_cols, sampled, pick_id>>
    /\ UNCHANGED collectionVars
    /\ UNCHANGED threadVars

\* pick_id = ... - 1 and "if 0 <= pick_id < N"
DecodeId ==
    /\ probe # <<>> /\ probe.stage = "sampled"
    /\ probe' = [probe EXCEPT !.stage = "decoded", !.decoded = Decode(probe.bytes),
                    !.hit = IsHit(Decode(probe.bytes), probe.n)]
    /\ UNCHANGED <<_click, spheres, highlight_colors, selected, pc, old_cols, sampled, pick_id>>
    /\ UNCHANGED collectionVars
    /\ UNCHANGED threadVars

PickIdNext ==
    \/ \E i \in IdSamples : EncodeId(i)
    \/ \E visible \in BOOLEAN : RenderId(visible)
    \/ DecodeId

SpecPickId == Init /\ [][PickIdNext]_vars

\* ------------------------------------------------- worker-thread demos
\* vispyneuronthreadtest.py ("test") and vispyneuronthreadplot.py ("plot"): a
\* QThread advances a NEURON simulation while the UI thread runs the Qt event
\* loop.  Simulated time is counted in fadvance() steps, and MaxSimSteps steps
\* take it to the 1000 ms both programs compare it with; the membrane voltage
\* after k steps is V(k).
steps_per_emit == 5

V(k) == k - 65

Min(a, b) == IF a < b THEN a ELSE b

otherVars == <<cls, builds, kind, _segs, _slices, _instances, _side_mesh, _disk_mesh,
               _cap_mesh, store, sink, event, pickVars>>

\* win = MainWindow(): NeuronWorker.__init__ sets the flag (and t, v in "plot"),
\* start() launches run(), and "plot" starts the UI timer with empty traces.
Launch(d) ==
    /\ demo = "none"
    /\ demo' = d
    /\ running' = TRUE
    /\ wpc' = "setup"
    /\ sim_t' = 0
    /\ sim_v' = V(0)
    /\ trace_t' = <<>>
    /\ trace_V' = <<>>
    /\ ui_timer' = (d = "plot")
    /\ UNCHANGED <<h_t, count, data_ready, mainpc, uf_t, uf_v, steps_after_stop>>
    /\ UNCHANGED otherVars

\* run() down to h.finitialize(-65)
W_setup ==
    /\ wpc = "setup"
    /\ count' = 0
    /\ h_t' = 0
    /\ wpc' = "check"
    /\ UNCHANGED <<demo, running, data_ready, sim_t, sim_v, mainpc, uf_t, uf_v, trace_t,
                   trace_V, ui_timer, steps_after_stop>>
    /\ UNCHANGED otherVars

\* A loop that no longer looks at the flag.
LoopConditionIgnoresStop == IF demo = "test" THEN TRUE ELSE sim_t < MaxSimSteps

\* "while self._running:" / "while self.running and self.t < 1000:"
LoopCondition == IF demo = "test" THEN running ELSE running /\ sim_t < MaxSimSteps

\* the test of the while loop
W_check ==
    /\ wpc = "check"
    /\ wpc' = IF LoopCondition THEN "advance" ELSE "done"
    /\ UNCHANGED <<demo, running, h_t, count, data_ready, sim_t, sim_v, mainpc, uf_t, uf_v,
                   trace_t, trace_V, ui_timer, steps_after_stop>>
    /\ UNCHANGED otherVars

\* h.fadvance().  The clock of "test", which no loop test bounds, is followed up to
\* the first step past 1000 ms.
W_advance ==
    /\ wpc = "advance"
    /\ h_t' = Min(h_t + 1, MaxSimSteps + 1)
    /\ steps_after_stop' = IF running THEN steps_after_stop ELSE Min(steps_after_stop + 1, 2)
    /\ wpc' = IF demo = "test" THEN "emit" ELSE "write_t"
    /\ UNCHANGED <<demo, running, count, data_ready, sim_t, sim_v, mainpc, uf_t, uf_v,
                   trace_t, trace_V, ui_timer>>
    /\ UNCHANGED otherVars

\* "test": count += 1; every steps_per_emit steps data_ready.emit(T, V, I), which
\* queues the call of on_data for the UI thread; msleep(0).  A signal emitted while
\* MaxQueued are pending takes the place of the newest of them.
W_emit ==
    /\ wpc = "emit"
    /\ IF count + 1 >= steps_per_emit
       THEN /\ count' = 0
            /\ data_ready' = IF Len(data_ready) < MaxQueued
                             THEN Append(data_ready, h_t)
                             ELSE [data_ready EXCEPT ![MaxQueued] = h_t]
       ELSE /\ count' = count + 1
            /\ UNCHANGED data_ready
    /\ wpc' = "check"
    /\ UNCHANGED <<demo, running, h_t, sim_t, sim_v, mainpc, uf_t, uf_v, trace_t, trace_V,
                   ui_timer, steps_after_stop>>
    /\ UNCHANGED otherVars

\* "plot": self.t = float(t_vec[-1])
W_write_t ==
    /\ wpc = "write_t"
    /\ sim_t' = h_t
    /\ wpc' = "write_v"
    /\ UNCHANGED <<demo, running, h_t, count, data_ready, sim_v, mainpc, uf_t, uf_v, trace_t,
                   trace_V, ui_timer, steps_after_stop>>
    /\ UNCHANGED otherVars

\* "plot": self.v = float(v_vec[-1]); msleep(0)
W_write_v ==
    /\ wpc = "write_v"
    /\ sim_v' = V(h_t)
    /\ wpc' = "check"
    /\ UNCHANGED <<demo, running, h_t, count, data_ready, sim_t, mainpc, uf_t, uf_v, trace_t,
                   trace_V, ui_timer, steps_after_stop>>
    /\ UNCHANGED otherVars

WorkerNext == W_setup \/ W_check \/ W_advance \/ W_emit \/ W_write_t \/ W_write_v

\* "test": on_data(T, V, I), run by the event loop for the oldest queued signal
on_data ==
    /\ mainpc = "idle"
    /\ demo = "test"
    /\ data_ready # <<>>
    /\ running' = IF Head(data_ready) > MaxSimSteps THEN FALSE ELSE running
    /\ data_ready' = Tail(data_ready)
    /\ UNCHANGED <<demo, wpc, h_t, count, sim_t, sim_v, mainpc, uf_t, uf_v, trace_t, trace_V,
                   ui_timer, steps_after_stop>>
    /\ UNCHANGED otherVars

\* "plot": update_frame, run by the event loop when the timer fires: t = self.sim.t
update_frame_read_t ==
    /\ mainpc = "idle"
    /\ demo = "plot"
    /\ ui_timer
    /\ uf_t' = sim_t
    /\ mainpc' = "update_frame_v"
    /\ UNCHANGED <<demo, running, wpc, h_t, count, data_ready, sim_t, sim_v, uf_v, trace_t,
                   trace_V, ui_timer, steps_after_stop>>
    /\ UNCHANGED otherVars

\* update_frame: v = self.sim.v
update_frame_read_v ==
    /\ mainpc = "update_frame_v"
    /\ uf_v' = sim_v
    /\ mainpc' = "update_frame_append"
    /\ UNCHANGED <<demo, running, wpc, h_t, count, data_ready, sim_t, sim_v, uf_t, trace_t,
                   trace_V, ui_timer, steps_after_stop>>
    /\ UNCHANGED otherVars

\* update_frame from the colour filter to its end: both traces take the sample and
\* drop their oldest entry beyond the cap; the timer stops when the flag is clear.
update_frame_append ==
    /\ mainpc = "update_frame_append"
    /\ LET ts == Append(trace_t, uf_t)
           vs == Append(trace_V, uf_v)
       IN IF Len(ts) > MaxTrace
          THEN trace_t' = Tail(ts) /\ trace_V' = Tail(vs)
          ELSE trace_t' = ts /\ trace_V' = vs
    /\ ui_timer' = IF ~running THEN FALSE ELSE ui_timer
    /\ mainpc' = "idle"
    /\ UNCHANGED <<demo, running, wpc, h_t, count, data_ready, sim_t, sim_v, uf_t, uf_v,
                   steps_after_stop>>
    /\ UNCHANGED otherVars

\* closeEvent(ev) down to the call of wait(): "plot" stops the timer; stop()
closeEvent_stop ==
    /\ mainpc = "idle"
    /\ demo # "none"
    /\ ui_timer' = FALSE
    /\ running' = FALSE
    /\ mainpc' = "waiting"
    /\ UNCHANGED <<demo, wpc, h_t, count, data_ready, sim_t, sim_v, uf_t, uf_v, trace_t,
                   trace_V, steps_after_stop>>
    /\ UNCHANGED otherVars

\* closeEvent: wait() returns once run() has returned; super().closeEvent(ev)
closeEvent_wait ==
    /\ mainpc = "waiting"
    /\ wpc = "done"
    /\ mainpc' = "closed"
    /\ UNCHANGED <<demo, running, wpc, h_t, count, data_ready, sim_t, sim_v, uf_t, uf_v,
                   trace_t, trace_V, ui_timer, steps_after_stop>>
    /\ UNCHANGED otherVars

\* What the event loop runs of its own accord: queued signals and timer ticks.
EventLoopNext ==
    on_data \/ update_frame_read_t \/ update_frame_read_v \/ update_frame_append

ThreadsNext ==
    \/ \E d \in {"test", "plot"} : Launch(d)
    \/ WorkerNext
    \/ EventLoopNext
    \/ closeEvent_stop
    \/ closeEvent_wait

\* The worker thread is scheduled again and again, the event loop keeps handling
\* what is due, and a wait() that can return does; the user need never close.
SpecThreads ==
    /\ Init
    /\ [][ThreadsNext]_vars
    /\ WF_vars(WorkerNext)
    /\ WF_vars(EventLoopNext)
    /\ WF_vars(closeEvent_wait)

\* ==================================================================== claims

\* The instance attributes a draw object currently holds.
InstanceData(mesh) ==
    [positions |-> mesh.instance_positions,
     transforms |-> mesh.instance_transforms,
     colors |-> mesh.instance_colors]

\* The step is a refresh() of c that found instances queued.
EmittingRefresh(c) ==
    event'.op = "refresh" /\ event'.obj = c /\ Len(_instances[c]) > 0

\* C1: on a deferred collection the first refresh that emits creates the side and
\* the cap draw object and records their two new handles; every later refresh
\* uploads the current batches into those same two objects, creates nothing, and
\* leaves their geometry alone; a handle once bound is never replaced, and only
\* refresh ever creates a draw object.
C1_CreateOnceThenUpdate ==
    [][\A c \in Colls :
        /\ _side_mesh[c] # 0 => _side_mesh'[c] = _side_mesh[c]
        /\ _disk_mesh[c] # 0 => _disk_mesh'[c] = _disk_mesh[c]
        /\ Len(sink') > Len(sink) => event'.op = "refresh"
        /\ EmittingRefresh(c) =>
            IF _side_mesh[c] = 0
            THEN /\ event'.calls = <<"create", "create">>
                 /\ Len(sink') = Len(sink) + 2
                 /\ _side_mesh'[c] = Len(sink) + 1
                 /\ _disk_mesh'[c] = Len(sink) + 2
                 /\ InstanceData(sink'[_side_mesh'[c]]) = SideBatch(_instances[c])
                 /\ InstanceData(sink'[_disk_mesh'[c]]) = CapBatch(_instances[c])
            ELSE /\ event'.calls = <<"update", "update">>
                 /\ Len(sink') = Len(sink)
                 /\ InstanceData(sink'[_side_mesh[c]]) = SideBatch(_instances[c])
                 /\ InstanceData(sink'[_disk_mesh[c]]) = CapBatch(_instances[c])
                 /\ sink'[_side_mesh[c]].vertices = sink[_side_mesh[c]].vertices
                 /\ sink'[_side_mesh[c]].faces = sink[_side_mesh[c]].faces
                 /\ sink'[_disk_mesh[c]].vertices = sink[_disk_mesh[c]].vertices
                 /\ sink'[_disk_mesh[c]].faces = sink[_disk_mesh[c]].faces]_vars

\* C1 witness: a refresh has updated the two bound objects with the data of an
\* instance added after they were created.
C1_Witness ==
    /\ event.op = "refresh" /\ event.calls = <<"update", "update">>
    /\ Len(sink) = 2
    /\ Len(_instances[1]) = 2
    /\ Len(sink[_side_mesh[1]].instance_positions) = 2
    /\ Len(sink[_disk_mesh[1]].instance_positions) = 4

\* The step is a refresh() of c made directly after another refresh() of c.
RefreshAfterRefresh(c) ==
    event'.op = "refresh" /\ event'.obj = c /\ event'.after = "refresh"

\* C2 as stated: a refresh directly after a refresh leaves both batches as they
\* were and invokes the sink's update for both draw objects.
C2_Original ==
    [][\A c \in Colls :
        RefreshAfterRefresh(c) =>
            /\ sink' = sink
            /\ event'.calls = <<"update", "update">>]_vars

\* C2 amended: a refresh directly after a refresh, on a collection that holds at
\* least one instance, leaves both batches as they were and invokes update for
\* both draw objects, never create; on a collection that holds no instance
\* neither call invokes the sink at all and the collection stays unbound.
C2_RefreshIdempotent ==
    [][\A c \in Colls :
        RefreshAfterRefresh(c) =>
            /\ sink' = sink
            /\ _side_mesh'[c] = _side_mesh[c] /\ _disk_mesh'[c] = _disk_mesh[c]
            /\ IF Len(_instances[c]) > 0
               THEN /\ event'.calls = <<"update", "update">>
                    /\ InstanceData(sink'[_side_mesh[c]]) = SideBatch(_instances[c])
                    /\ InstanceData(sink'[_disk_mesh[c]]) = CapBatch(_instances[c])
               ELSE /\ event'.calls = <<>>
                    /\ event.calls = <<>>
                    /\ _side_mesh'[c] = 0 /\ _disk_mesh'[c] = 0]_vars

\* C2 witness: the second of two refreshes in a row on a populated collection.
C2_Witness ==
    /\ event.op = "refresh" /\ event.after = "refresh"
    /\ event.calls = <<"update", "update">>
    /\ Len(_instances[1]) >= 1
    /\ InstanceData(sink[_side_mesh[1]]) = SideBatch(_instances[1])

\* The handle of the cap draw object of c, whatever its class calls it.
CapHandle(c) == IF kind[c] = "bulk" THEN _cap_mesh[c] ELSE _disk_mesh[c]

\* The instances c currently stores, in order, as (pos, radius, height, col, ori).
StoredInstances(c) ==
    IF kind[c] = "bulk"
    THEN [k \in 1..store[c].N |->
            [pos |-> store[c].positions[k], radius |-> store[c].radii[k],
             height |-> store[c].heights[k], col |-> store[c].colors[k],
             ori |-> store[c].orientations[k]]]
    ELSE IF kind[c] = "eager"
    THEN [k \in 1..Len(_instances[c]) |->
            [pos |-> _instances[c][k].pos, radius |-> _instances[c][k].radius,
             height |-> _instances[c][k].height, col |-> _instances[c][k].col,
             ori |-> Eye3]]
    ELSE _instances[c]

\* C3 as stated: a collection that exists becomes bound only in a refresh step, and
\* an add_cylinder step creates nothing and updates nothing: every draw object
\* holds after it the rows it held before.
C3_Original ==
    [][\A c \in Colls :
        /\ (kind[c] # "none" /\ _side_mesh[c] = 0 /\ _side_mesh'[c] # 0)
                => event'.op = "refresh"
        /\ (event'.op = "add_cylinder" /\ event'.obj = c)
                => /\ sink' = sink
                   /\ _side_mesh'[c] = _side_mesh[c]
                   /\ _disk_mesh'[c] = _disk_mesh[c]]_vars

\* The cap rows of a draw object are interleaved per instance: rows 2k and 2k+1
\* (0-based) are the bottom and the top cap of instance k and carry its colour.
Interleaved(insts, mesh) ==
    /\ Len(mesh.instance_positions) = 2 * Len(insts)
    /\ Len(mesh.instance_colors) = 2 * Len(insts)
    /\ \A k \in 1..Len(insts) :
        LET axis == Column(insts[k].ori, 3)
            half == Half(insts[k].height)
        IN /\ mesh.instance_positions[2 * k - 1] = VecSub(insts[k].pos, VecScale(axis, half))
           /\ mesh.instance_positions[2 * k] = VecAdd(insts[k].pos, VecScale(axis, half))
           /\ mesh.instance_colors[2 * k - 1] = insts[k].col
           /\ mesh.instance_colors[2 * k] = insts[k].col

\* C4 as stated: whenever a call of any variant has emitted to the sink (at
\* construction or in a later update), the cap draw object of its collection
\* holds 2N rows interleaved per instance.
C4_Original ==
    [][\A c \in Colls :
        (event'.obj = c /\ event'.calls # <<>> /\ kind'[c] # "none")
            => Interleaved(StoredInstances(c)', (sink[CapHandle(c)])')]_vars

\* C5 as stated: a set_colors or set_transforms call that fails leaves every
\* stored field and both bound batches as they were.
C5_Original ==
    [][\A c \in Colls :
        (event'.op \in {"set_colors", "set_transforms"} /\ event'.obj = c
            /\ event'.raised # "none")
            => store' = store /\ sink' = sink]_vars

\* Every array has length N and every radius and height is positive.
BulkInputsValid(st) ==
    /\ Len(st.positions) = st.N /\ Len(st.radii) = st.N /\ Len(st.heights) = st.N
    /\ Len(st.orientations) = st.N /\ Len(st.colors) = st.N
    /\ \A k \in 1..st.N : st.radii[k] > 0 /\ st.heights[k] > 0

\* C6 as stated: a bulk construction that succeeds has passed the length checks
\* and the radius > 0, height > 0 checks; one that fails stores no array and
\* creates no draw object.
C6_Original ==
    [][\A c \in Colls :
        (event'.op = "__init__" /\ event'.obj = c /\ kind[c] = "none"
            /\ kind'[c] \in {"none", "bulk"})
            => IF event'.raised = "none"
               THEN store'[c].live /\ BulkInputsValid(store'[c])
               ELSE /\ ~store'[c].live
                    /\ store'[c].positions = <<>> /\ store'[c].radii = <<>>
                    /\ sink' = sink]_vars

\* C7 as stated: an add never appends an instance whose radius or height is not
\* positive.
C7_Original ==
    [][\A c \in Colls :
        Len(_instances'[c]) > Len(_instances[c])
            => LET new == _instances'[c][Len(_instances'[c])]
               IN new.radius > 0 /\ new.height > 0]_vars

\* C8 as stated: every stored instance of every collection has radius > 0 and
\* height > 0.
C8_Original ==
    \A c \in Colls :
        kind[c] # "none" =>
            \A k \in DOMAIN StoredInstances(c) :
                StoredInstances(c)[k].radius > 0 /\ StoredInstances(c)[k].height > 0

\* C9 as stated: a bound collection constructed with counts (S, K) draws with a
\* lateral mesh of 2S vertices and a disk mesh of K + 1 vertices.
C9_Original ==
    \A c \in Colls :
        (kind[c] \in {"deferred", "bulk"} /\ _side_mesh[c] # 0 /\ CapHandle(c) # 0)
            => /\ Len(sink[_side_mesh[c]].vertices.data) = 2 * _segs[c]
               /\ Len(sink[CapHandle(c)].vertices.data) = _slices[c] + 1

\* The draw objects of c use the very arrays the class attributes of K hold.
UsesSharedGeometry(c, K, s) ==
    /\ K.side_vertices = <<s[_side_mesh[c]].vertices>>
    /\ K.side_indices = <<s[_side_mesh[c]].faces>>
    /\ K.disk_vertices = <<s[CapHandle(c)].vertices>>
    /\ K.disk_indices = <<s[CapHandle(c)].faces>>

\* C10: in a process of any of the three classes, each unit mesh is generated at
\* most once: a class attribute that holds a mesh keeps that very array (same
\* object, same contents) through every later construction, add and refresh, at
\* most one lateral and one disk mesh are ever generated, and every bound
\* collection draws with exactly the arrays the class attributes hold.
C10_SharedGeometryBuiltOnce ==
    [][/\ \A k \in Kinds :
            /\ cls[k].side_vertices # <<>> =>
                    /\ cls'[k].side_vertices = cls[k].side_vertices
                    /\ cls'[k].side_indices = cls[k].side_indices
            /\ cls[k].disk_vertices # <<>> =>
                    /\ cls'[k].disk_vertices = cls[k].disk_vertices
                    /\ cls'[k].disk_indices = cls[k].disk_indices
       /\ builds' <= 2
       /\ \A c \in Colls :
            (kind'[c] # "none" /\ _side_mesh'[c] # 0)
                => UsesSharedGeometry(c, cls[kind[c]], sink)']_vars

\* C10 witness: two collections with the same counts are bound, the second one
\* after the geometry had been generated for the first, and both draw with the
\* same two arrays.
C10_Witness ==
    /\ kind[1] = "deferred" /\ kind[2] = "deferred"
    /\ _segs[1] = _segs[2] /\ _slices[1] = _slices[2]
    /\ _side_mesh[1] # 0 /\ _side_mesh[2] # 0
    /\ builds = 2
    /\ sink[_side_mesh[1]].vertices = sink[_side_mesh[2]].vertices
    /\ sink[_disk_mesh[1]].vertices = sink[_disk_mesh[2]].vertices
    /\ Len(sink[_side_mesh[1]].vertices.data) = 2 * _segs[1]

\* The step generates the lateral mesh of class k.
SideGenerated(k) == cls[k].side_vertices = <<>> /\ cls'[k].side_vertices # <<>>

\* The step generates the disk mesh of class k.
DiskGenerated(k) == cls[k].disk_vertices = <<>> /\ cls'[k].disk_vertices # <<>>

\* C11: a refresh that generates the lateral mesh for a segment count S >= 3
\* yields exactly 2S vertices and 2S triangles, every index is in 0..2S-1, and the
\* triangles are, for each segment i with ni = (i+1) mod S, [i, i+S, ni] and
\* [ni, i+S, ni+S] and no others.
C11_LateralMesh ==
    [][\A c \in Colls :
        (SideGenerated("deferred") /\ event'.obj = c /\ _segs[c] >= 3) =>
            LET S == _segs[c]
                verts == cls'["deferred"].side_vertices[1].data
                tris == cls'["deferred"].side_indices[1].data
            IN /\ Len(verts) = 2 * S
               /\ Len(tris) = 2 * S
               /\ \A t \in DOMAIN tris : \A j \in 1..3 : tris[t][j] >= 0 /\ tris[t][j] < 2 * S
               /\ \A i \in 0..(S - 1) :
                    LET ni == IF i = S - 1 THEN 0 ELSE i + 1
                    IN /\ tris[2 * i + 1] = <<i, i + S, ni>>
                       /\ tris[2 * i + 2] = <<ni, i + S, ni + S>>
               /\ {tris[t] : t \in DOMAIN tris} =
                    UNION {{<<i, i + S, (i + 1) % S>>, <<(i + 1) % S, i + S, ((i + 1) % S) + S>>}
                           : i \in 0..(S - 1)}]_vars

\* C11 witness: the lateral mesh of the largest segment count has been generated
\* and drawn, and its last segment wraps around to vertex 0.
C11_Witness ==
    /\ _segs[1] = MaxSegs /\ MaxSegs >= 3
    /\ _side_mesh[1] # 0
    /\ Len(sink[_side_mesh[1]].faces.data) = 2 * MaxSegs
    /\ sink[_side_mesh[1]].faces.data[2 * MaxSegs] = <<0, 2 * MaxSegs - 1, MaxSegs>>

\* C12: a refresh that generates the disk mesh for a slice count K >= 3 yields K+1
\* vertices and K triangles, every triangle references vertex 0, every index is in
\* 0..K, and the triangles are [0, j, j+1] for j = 1..K-1 and the closing [0, K, 1].
C12_DiskMesh ==
    [][\A c \in Colls :
        (DiskGenerated("deferred") /\ event'.obj = c /\ _slices[c] >= 3) =>
            LET K == _slices[c]
                verts == cls'["deferred"].disk_vertices[1].data
                tris == cls'["deferred"].disk_indices[1].data
            IN /\ Len(verts) = K + 1
               /\ Len(tris) = K
               /\ \A t \in DOMAIN tris :
                    /\ \E j \in 1..3 : tris[t][j] = 0
                    /\ \A j \in 1..3 : tris[t][j] >= 0 /\ tris[t][j] <= K
               /\ \A j \in 1..(K - 1) : tris[j] = <<0, j, j + 1>>
               /\ tris[K] = <<0, K, 1>>]_vars

\* C12 witness: the disk mesh of the largest slice count has been generated and
\* drawn, closing triangle included.
C12_Witness ==
    /\ _slices[1] = MaxSegs /\ MaxSegs >= 3
    /\ _disk_mesh[1] # 0
    /\ Len(sink[_disk_mesh[1]].vertices.data) = MaxSegs + 1
    /\ sink[_disk_mesh[1]].faces.data[MaxSegs] = <<0, MaxSegs, 1>>

\* C13 as stated: a refresh that has to generate geometry for a segment count
\* below 3 or a slice count below 3 fails with InvalidParameter and leaves the
\* class without a cached mesh.
C13_Original ==
    [][\A c \in Colls :
        (event'.op = "refresh" /\ event'.obj = c /\ Len(_instances[c]) > 0
            /\ cls["deferred"] = NoGeometry /\ (_segs[c] < 3 \/ _slices[c] < 3))
            => /\ event'.raised = "InvalidParameter"
               /\ cls'["deferred"] = NoGeometry]_vars

\* m @ diag(s): column j of m scaled by s[j].
ColumnsScaled(m, s) == [i \in 1..3 |-> [j \in 1..3 |-> m[i][j] * s[j]]]

\* The last call was a refresh() of c that emitted its batches.
Refreshed(c) ==
    event.op = "refresh" /\ event.obj = c /\ event.calls # <<>>

\* C14: after a refresh of a deferred collection with N instances the lateral
\* batch has N rows, and row k holds the position and the colour of the k-th
\* instance added and the transform orientation_k . diag(radius_k, radius_k,
\* height_k), which for the identity orientation is diag(r, r, h).
C14_LateralBatch ==
    \A c \in Colls :
        Refreshed(c) =>
            LET insts == _instances[c]
                mesh == sink[_side_mesh[c]]
            IN /\ Len(mesh.instance_positions) = Len(insts)
               /\ Len(mesh.instance_transforms) = Len(insts)
               /\ Len(mesh.instance_colors) = Len(insts)
               /\ \A k \in 1..Len(insts) :
                    LET r == insts[k].radius
                        h == insts[k].height
                    IN /\ mesh.instance_positions[k] = insts[k].pos
                       /\ mesh.instance_colors[k] = insts[k].col
                       /\ mesh.instance_transforms[k] = ColumnsScaled(insts[k].ori, <<r, r, h>>)
                       /\ insts[k].ori = Eye3 =>
                            mesh.instance_transforms[k] = <<<<r, 0, 0>>, <<0, r, 0>>, <<0, 0, h>>>>

\* C14 witness: a refresh of two instances, the second one rotated by 90 degrees
\* about x with radius 2 and height 4, has uploaded that instance's transform.
C14_Witness ==
    /\ Refreshed(1)
    /\ Len(_instances[1]) = 2
    /\ _instances[1][2].ori = Rx90 /\ _instances[1][2].radius = 2
    /\ _instances[1][2].height = 4
    /\ sink[_side_mesh[1]].instance_transforms[2] = <<<<2, 0, 0>>, <<0, 0, -4>>, <<0, 2, 0>>>>

\* The arrays of the bulk constructor that hold the queued instances.
AsArrays(insts) ==
    [N |-> Len(insts),
     positions |-> [k \in 1..Len(insts) |-> insts[k].pos],
     radii |-> [k \in 1..Len(insts) |-> insts[k].radius],
     heights |-> [k \in 1..Len(insts) |-> insts[k].height],
     orientations |-> [k \in 1..Len(insts) |-> insts[k].ori],
     colors |-> [k \in 1..Len(insts) |-> insts[k].col],
     live |-> TRUE]

\* C15: after a refresh the bottom cap of instance k sits at position_k -
\* axis_k * height_k/2 and its top cap at position_k + axis_k * height_k/2, with
\* axis_k the column 2 of orientation_k; the positions refresh() gets by rotating
\* the offset (0, 0, -+height/2) are the ones the bulk constructor gets for the
\* same instances by scaling column 2.
C15_CapPlacement ==
    \A c \in Colls :
        Refreshed(c) =>
            LET insts == _instances[c]
                n == Len(insts)
                placed == sink[_disk_mesh[c]].instance_positions
                scaled == BulkCapPositions(AsArrays(insts))
            IN /\ Len(placed) = 2 * n
               /\ \A k \in 1..n :
                    LET axis == <<insts[k].ori[1][3], insts[k].ori[2][3], insts[k].ori[3][3]>>
                        half == Half(insts[k].height)
                        p == insts[k].pos
                    IN /\ placed[2 * k - 1] = <<p[1] - axis[1] * half, p[2] - axis[2] * half,
                                                p[3] - axis[3] * half>>
                       /\ placed[2 * k] = <<p[1] + axis[1] * half, p[2] + axis[2] * half,
                                            p[3] + axis[3] * half>>
                       /\ placed[2 * k - 1] = scaled[k]
                       /\ placed[2 * k] = scaled[n + k]

\* C15 witness: a refresh has placed the caps of a cylinder at (2, 0, 0) of height
\* 4 whose axis, rotated by 90 degrees about x, is (0, -1, 0).
C15_Witness ==
    /\ Refreshed(1)
    /\ \E k \in 1..Len(_instances[1]) :
        /\ _instances[1][k].ori = Rx90 /\ _instances[1][k].height = 4
        /\ _instances[1][k].pos = <<2, 0, 0>>
        /\ sink[_disk_mesh[1]].instance_positions[2 * k - 1] = <<2, 2, 0>>
        /\ sink[_disk_mesh[1]].instance_positions[2 * k] = <<2, -2, 0>>

\* C16: after a refresh the bottom cap and the top cap of instance k both carry
\* the transform orientation_k . diag(radius_k, radius_k, 1), whatever its height.
C16_CapTransform ==
    \A c \in Colls :
        Refreshed(c) =>
            LET insts == _instances[c]
                xf == sink[_disk_mesh[c]].instance_transforms
            IN /\ Len(xf) = 2 * Len(insts)
               /\ \A k \in 1..Len(insts) :
                    /\ xf[2 * k - 1] = ColumnsScaled(insts[k].ori,
                                                     <<insts[k].radius, insts[k].radius, 1>>)
                    /\ xf[2 * k] = xf[2 * k - 1]

\* C16 witness: a refresh has uploaded the cap transforms of a rotated cylinder of
\* radius 2 whose height is not 1.
C16_Witness ==
    /\ Refreshed(1)
    /\ \E k \in 1..Len(_instances[1]) :
        /\ _instances[1][k].ori = Rx90 /\ _instances[1][k].radius = 2
        /\ _instances[1][k].height = 4
        /\ sink[_disk_mesh[1]].instance_transforms[2 * k - 1] =
                <<<<2, 0, 0>>, <<0, 0, -1>>, <<0, 2, 0>>>>
        /\ sink[_disk_mesh[1]].instance_transforms[2 * k] =
                <<<<2, 0, 0>>, <<0, 0, -1>>, <<0, 2, 0>>>>

\* C18: a refresh of a deferred collection that holds no instance makes no sink
\* call, creates no draw object, generates no shared geometry and leaves the
\* collection unbound; a step that creates a draw object is a refresh of a
\* collection that holds at least one instance.
C18_EmptyRefreshNoEffect ==
    [][\A c \in Colls :
        /\ (event'.op = "refresh" /\ event'.obj = c /\ Len(_instances[c]) = 0)
            => /\ event'.calls = <<>>
               /\ sink' = sink
               /\ cls' = cls /\ builds' = builds
               /\ _side_mesh'[c] = 0 /\ _disk_mesh'[c] = 0
        /\ (event'.obj = c /\ Len(sink') > Len(sink))
            => event'.op = "refresh" /\ Len(_instances[c]) >= 1]_vars

\* C18 witness: an empty collection has been refreshed and nothing exists yet.
C18_Witness ==
    /\ event.op = "refresh" /\ event.obj = 1 /\ event.calls = <<>>
    /\ kind[1] = "deferred" /\ _instances[1] = <<>>
    /\ _side_mesh[1] = 0 /\ _disk_mesh[1] = 0
    /\ sink = <<>> /\ cls["deferred"] = NoGeometry /\ builds = 0

\* The side batch and the cap batch the bulk constructor builds from the arrays st.
Rebuilt(st) ==
    [side |-> [positions |-> st.positions, transforms |-> BulkSideTransforms(st),
               colors |-> st.colors],
     caps |-> [positions |-> BulkCapPositions(st), transforms |-> BulkCapTransforms(st),
               colors |-> VStack(st.colors, st.colors)]]

\* Every cap row of the bulk collection c carries the position, the transform and
\* the colour of one instance: rows k and N + k those of instance k.
CapRowsCoherent(c) ==
    LET st == store[c]
        caps == sink[_cap_mesh[c]]
    IN /\ Len(caps.instance_positions) = 2 * st.N
       /\ Len(caps.instance_transforms) = 2 * st.N
       /\ Len(caps.instance_colors) = 2 * st.N
       /\ \A j \in 1..(2 * st.N) :
            LET k == ((j - 1) % st.N) + 1
                ori == st.orientations[k]
                axis == <<ori[1][3], ori[2][3], ori[3][3]>>
                off == IF j <= st.N THEN 0 - Half(st.heights[k]) ELSE Half(st.heights[k])
                p == st.positions[k]
            IN /\ caps.instance_positions[j] =
                    <<p[1] + axis[1] * off, p[2] + axis[2] * off, p[3] + axis[3] * off>>
               /\ caps.instance_transforms[j] =
                    ColumnsScaled(ori, <<st.radii[k], st.radii[k], 1>>)
               /\ caps.instance_colors[j] = st.colors[k]

\* Both bound batches of the bulk collection c mirror its stored arrays.
BatchesCurrent(c) ==
    /\ kind[c] = "bulk"
    /\ InstanceData(sink[_side_mesh[c]]) = Rebuilt(store[c]).side
    /\ InstanceData(sink[_cap_mesh[c]]) = Rebuilt(store[c]).caps
    /\ CapRowsCoherent(c)

\* The step is a call op on c that raised nothing.
Succeeded(op, c) == event'.op = op /\ event'.obj = c /\ event'.raised = "none"

\* C19: a successful bulk construction leaves both batches equal to a rebuild from
\* the stored arrays, and a successful set_colors or set_transforms on a collection
\* whose batches are current leaves them current: no attribute of either batch is
\* stale and every cap row belongs to one instance.
C19_BatchesCurrent ==
    [][\A c \in Colls :
        /\ (kind[c] = "none" /\ kind'[c] = "bulk") => BatchesCurrent(c)'
        /\ (BatchesCurrent(c) /\ (Succeeded("set_colors", c) \/ Succeeded("set_transforms", c)))
            => BatchesCurrent(c)']_vars

\* C19 witness: a successful set_colors on a collection of two instances whose
\* batches were current has put the new colours on either cap of each instance.
C19_Witness ==
    /\ event.op = "set_colors" /\ event.raised = "none"
    /\ store[1].N = 2
    /\ BatchesCurrent(1)
    /\ store[1].colors = <<ColorValues[2], ColorValues[1]>>
    /\ sink[_cap_mesh[1]].instance_colors =
            <<ColorValues[2], ColorValues[1], ColorValues[2], ColorValues[1]>>

\* C17: the id colours are in the colour buffer only between the render of a pick
\* pass and the handler's next statement: the pass saves the colours, overwrites
\* them with id_colors and renders; the very next thing the handler does is put
\* the saved colours back, before any decoding or toggling; and a pick that
\* hits nothing ends with the buffer holding exactly the colours saved.
C17_PickRestoresColors ==
    [][/\ (pc = "idle" /\ pc' = "rendered")
            => /\ old_cols' = spheres.instance_colors
               /\ spheres'.instance_colors = id_colors
       /\ pc = "rendered"
            => /\ pc' = "restored"
               /\ spheres'.instance_colors = old_cols
               /\ UNCHANGED <<old_cols, sampled, selected, highlight_colors, pick_id>>
       /\ (pc = "restored" /\ ~IsHit(pick_id'[1], N))
            => /\ spheres'.instance_colors = spheres.instance_colors
               /\ spheres'.instance_colors = old_cols
       /\ pc' # "rendered" => spheres'.instance_colors # id_colors]_vars

\* C17 witness: a pick that hit nothing has ended while a sphere was highlighted,
\* and the buffer shows the highlight colours, not the id colours.
C17_Witness ==
    /\ pc = "idle" /\ pick_id = <<-1>>
    /\ selected[2] /\ ~selected[1]
    /\ spheres.instance_colors = <<Blue, Red, Blue>>
    /\ spheres.instance_colors = highlight_colors

\* C20: for every instance index i tried (0 <= i < 2^24 - 1) the sampled bytes of
\* its id colour hold i + 1 with the low byte in R, decoding them gives back i and
\* reports a hit, no other index tried has the same id colour, and the cleared
\* background decodes to -1 and reports no hit.
C20_PickIdExact ==
    probe # <<>> =>
        /\ probe.i >= 0 /\ probe.i < 16777215
        /\ \A j \in IdSamples : j # probe.i => IdColor(j) # probe.color
        /\ probe.stage \in {"sampled", "decoded"} =>
            IF probe.visible
            THEN /\ probe.bytes[1] = (probe.i + 1) % 256
                 /\ probe.bytes[1] + 256 * probe.bytes[2] + 65536 * probe.bytes[3] = probe.i + 1
            ELSE probe.bytes = <<0, 0, 0>>
        /\ probe.stage = "decoded" =>
            IF probe.visible
            THEN probe.decoded = probe.i /\ probe.hit
            ELSE probe.decoded = -1 /\ ~probe.hit

\* C20 witness: instance 65536, whose id 65537 needs the red and the blue byte,
\* has been rendered, sampled as (1, 0, 1) and decoded.
C20_Witness ==
    /\ probe # <<>>
    /\ probe.stage = "decoded" /\ probe.visible
    /\ probe.i = 65536
    /\ probe.bytes = <<1, 0, 1>>
    /\ probe.decoded = 65536 /\ probe.hit

\* Every sphere is shown red when it is selected and blue when it is not.
Displayed ==
    \A i \in 1..N :
        spheres.instance_colors[i] = IF selected[i] THEN Red ELSE Blue

\* C21: between handlers every sphere is shown red exactly when it is selected and
\* blue otherwise; the pass of a click over sphere u flips selected[u] and no other
\* entry, and one over the background flips none; a press, a release that is a
\* drag and a release without a press leave the selection and the colours alone.
C21_HighlightMatchesSelection ==
    [][/\ pc = "idle" => Displayed
       /\ pc' = "idle" => Displayed'
       /\ pc = "restored" =>
            \A u \in 0..N :
                sampled = RenderPixel(id_colors, u) =>
                    \A i \in 1..N : selected'[i] = IF i = u THEN ~selected[i] ELSE selected[i]
       /\ pc # "restored" => selected' = selected /\ highlight_colors' = highlight_colors
       /\ (pc = "idle" /\ pc' = "idle") => spheres' = spheres]_vars

\* C21 witness: the second sphere has been clicked a second time and is blue again
\* while the first one stays selected and red.
C21_Witness ==
    /\ pc = "idle" /\ pick_id = <<1>>
    /\ selected = <<TRUE, FALSE, FALSE>>
    /\ spheres.instance_colors = <<Red, Blue, Blue>>
    /\ _click = <<>>

\* C22: in either demo the worker makes at most one fadvance() step after its
\* flag has been cleared, and a closeEvent that has called stop() and waits for
\* the worker always gets to the end: wait() returns and the window closes.
C22_CloseStopsWorker ==
    /\ [](steps_after_stop <= 1)
    /\ [](mainpc = "closed" => wpc = "done")
    /\ (mainpc = "waiting") ~> (mainpc = "closed")

\* C22 witness: a window has closed after its worker, caught by stop() in the
\* middle of an iteration, finished that one step and left the loop.
C22_Witness ==
    /\ mainpc = "closed" /\ wpc = "done"
    /\ ~running
    /\ steps_after_stop = 1
    /\ h_t >= 2

\* C23 as stated: in the plot demo, once the worker's loop has ended the UI timer
\* is eventually stopped.
C23_Original ==
    (demo = "plot" /\ wpc = "done") ~> (~ui_timer)

\* C24 as stated: every sample in the traces of the plot demo pairs a time with
\* the voltage of that same simulation step.
C24_Original ==
    /\ Len(trace_V) = Len(trace_t)
    /\ \A i \in DOMAIN trace_t : trace_V[i] = V(trace_t[i])

====
